---- MODULE Spec2Model ----
(***************************************************************************)
(* Model of the product / review routers of fastapi_ecommerce.             *)
(*                                                                         *)
(* The store is the committed (durable) content of the tables categories,  *)
(* products and reviews.  Rows are never removed, ids are assigned in      *)
(* insertion order, so a table is a sequence indexed by id.                *)
(*                                                                         *)
(* Four specifications share the state:                                    *)
(*   Spec        - review subsystem, every handler runs to completion      *)
(*   SpecCatalog - product subsystem, every handler runs to completion     *)
(*   SpecConc    - two requests in flight, one step per awaited store call *)
(*   SpecFail    - SpecConc with store calls that may raise                *)
(*                                                                         *)
(* A rating is an exact fraction <<numerator, denominator>> in lowest      *)
(* terms; 0.0 is <<0, 1>>.                                                 *)
(***************************************************************************)
EXTENDS Integers, Sequences, FiniteSets, TLC

VARIABLES categories, products, reviews, last, req

vars == <<categories, products, reviews, last, req>>

store == <<categories, products, reviews>>

----------------------------------------------------------------------------
(* Bounds: rows a table may hold *)

MaxProducts == 2

MaxReviews == 2

(* the largest number of products in a table that is listed *)
MaxListed == 5

----------------------------------------------------------------------------
(* Principals.  The users table and the role dependencies live in app.auth *)
(* and app.models.users; roles are fixed for the life of a request.        *)

Users ==
  { [id |-> 1, role |-> "seller"],
    [id |-> 2, role |-> "seller"],
    [id |-> 3, role |-> "buyer"],
    [id |-> 4, role |-> "admin"] }

get_current_seller(u) == u.role = "seller"

get_current_buyer(u) == u.role = "buyer"

get_current_admin(u) == u.role = "admin"

(* The dependency each handler declares for current_user. *)
create_product_dep(u) == get_current_seller(u)

update_product_dep(u) == get_current_seller(u)

delete_product_dep(u) == get_current_seller(u)

(* create_review wired to the sellers' dependency instead *)
create_review_dep_seller(u) == get_current_seller(u)

create_review_dep(u) == get_current_buyer(u)

delete_review_dep(u) == get_current_admin(u)

----------------------------------------------------------------------------
(* Value domains of the request bodies *)

CategoryIds == {1, 2}

(* a category_id that names no row *)
AbsentCategoryIds == {3}

ProductIds == 1 .. (MaxProducts + 1)

ReviewIds == 1 .. (MaxReviews + 1)

Grades == {1, 2}

Prices == {10}

Stocks == {5}

(* a body field the caller did not supply *)
Unset == 0 - 1

(* ProductCreate bodies of POST /products *)
ProductCreate ==
  [category_id : CategoryIds \cup AbsentCategoryIds, price : Prices, stock : Stocks]

(* ProductCreate bodies of PUT /products/{id}; a field may be left unset *)
ProductUpdate ==
  [category_id : CategoryIds \cup {Unset},
   price : Prices \cup {Unset},
   stock : Stocks \cup {Unset}]

(* the bodies used where the product fields do not matter *)
PlainProducts == {[category_id |-> 1, price |-> 10, stock |-> 5]}

ReviewCreate == [product_id : ProductIds, grade : Grades]

----------------------------------------------------------------------------
(* Ratings *)

Zero == <<0, 1>>

None == <<>>

RECURSIVE GCD(_, _)
GCD(a, b) == IF b = 0 THEN a ELSE GCD(b, a % b)

Frac(n, d) == <<n \div GCD(n, d), d \div GCD(n, d)>>

(* the rows of a product without the is_active filter *)
ReviewsOfProduct(revs, pid) ==
  { i \in 1 .. Len(revs) : revs[i].product_id = pid }

(* the rows the avg query selects: product_id == pid, is_active == True *)
ActiveReviews(revs, pid) ==
  { i \in 1 .. Len(revs) : revs[i].product_id = pid /\ revs[i].is_active }

RECURSIVE SumGrades(_, _)
SumGrades(revs, S) ==
  IF S = {} THEN 0
  ELSE LET i == CHOOSE x \in S : TRUE
       IN revs[i].grade + SumGrades(revs, S \ {i})

(* select(func.avg(grade)).where(...): NULL over no rows *)
func_avg(revs, pid) ==
  LET S == ActiveReviews(revs, pid)
  IN IF S = {} THEN None ELSE Frac(SumGrades(revs, S), Cardinality(S))

(* avg_rating = result.scalar() or 0.0 *)
avg_rating(revs, pid) ==
  LET a == func_avg(revs, pid)
  IN IF a = None \/ a[1] = 0 THEN Zero ELSE a

(* update_product_rating run to completion on a store *)
update_product_rating(prods, revs, pid) ==
  [prods EXCEPT ![pid].rating = avg_rating(revs, pid)]

----------------------------------------------------------------------------
(* Queries *)

(* the category query without its is_active filter *)
SelectCategoryAnyState(cid) == cid \in DOMAIN categories

(* select(CategoryModel).where(id == cid, is_active == True).first() *)
SelectActiveCategory(cid) == cid \in DOMAIN categories /\ categories[cid]

(* the product query without its is_active filter *)
SelectProductAnyState(pid) == pid \in 1 .. Len(products)

(* select(ProductModel).where(id == pid, is_active == True).first() *)
SelectActiveProduct(pid) == pid \in 1 .. Len(products) /\ products[pid].is_active

(* select(ReviewModel).where(id == rid, is_active == True).first() *)
SelectActiveReview(rid) == rid \in 1 .. Len(reviews) /\ reviews[rid].is_active

(* the review listing without its is_active filter *)
SelectAllReviews(revs) == 1 .. Len(revs)

(* select(ReviewModel).where(is_active == True) *)
SelectActiveReviews(revs) == { i \in 1 .. Len(revs) : revs[i].is_active }

(* select(ReviewModel).where(product_id == pid, is_active == True) *)
SelectReviewsByProduct(revs, pid) ==
  { i \in 1 .. Len(revs) : revs[i].product_id = pid /\ revs[i].is_active }

(* select(ProductModel).where(category_id == cid, is_active == True) *)
SelectProductsByCategory(prods, cid) ==
  { i \in 1 .. Len(prods) : prods[i].category_id = cid /\ prods[i].is_active }

(* an optional query parameter that was not given *)
NoFlag == <<>>

(* the price check with >= in place of > *)
PriceRangeInvalidOrEqual(min_price, max_price) ==
  min_price # Unset /\ max_price # Unset /\ min_price >= max_price

(* min_price is not None and max_price is not None and min_price > max_price *)
PriceRangeInvalid(min_price, max_price) ==
  min_price # Unset /\ max_price # Unset /\ min_price > max_price

(* the filters list of get_all_products applied to one row *)
Filters(row, q) ==
  /\ row.is_active
  /\ q.category_id # Unset => row.category_id = q.category_id
  /\ q.min_price # Unset => row.price >= q.min_price
  /\ q.max_price # Unset => row.price <= q.max_price
  /\ q.in_stock # NoFlag =>
       IF q.in_stock[1] THEN row.stock > 0 ELSE row.stock = 0
  /\ q.seller_id # Unset => row.seller_id = q.seller_id

(* select(...).where(filters): the ids of the rows that pass *)
Where(prods, q) == { i \in 1 .. Len(prods) : Filters(prods[i], q) }

(* order_by(ProductModel.id) *)
RECURSIVE OrderById(_)
OrderById(S) ==
  IF S = {} THEN <<>>
  ELSE LET m == CHOOSE x \in S : \A y \in S : x <= y
       IN <<m>> \o OrderById(S \ {m})

(* an offset that skips the requested page as well *)
OffsetPastPage(page, page_size) == page * page_size

(* offset((page - 1) * page_size) *)
Offset(page, page_size) == (page - 1) * page_size

(* .offset(offset).limit(limit) of an ordered result *)
OffsetLimit(rows, offset, limit) ==
  SubSeq(rows, offset + 1,
         IF offset + limit < Len(rows) THEN offset + limit ELSE Len(rows))

(* the orders in which a query without order_by, or ordered by a column on *)
(* which the rows tie, may return the rows S                               *)
AnyOrder(S) ==
  { rows \in [1 .. Cardinality(S) -> S] :
      \A i, j \in 1 .. Cardinality(S) : i # j => rows[i] # rows[j] }

(* the handler without its ownership test *)
NotOwnerUnchecked(db_product, current_user) == FALSE

(* db_product.seller_id != current_user.id *)
NotOwner(db_product, current_user) == db_product.seller_id # current_user.id

(* column defaults of the products table (app/models/products.py) *)
ProductDefaults == [rating |-> Zero, is_active |-> TRUE]

(* ProductModel(product.model_dump(), seller_id=current_user.id) *)
NewProduct(body, seller_id) ==
  [category_id |-> body.category_id, price |-> body.price, stock |-> body.stock,
   seller_id |-> seller_id,
   rating |-> ProductDefaults.rating, is_active |-> ProductDefaults.is_active]

(* ReviewModel(review.model_dump(), user_id=current_user.id), is_active default *)
NewReview(body, user_id) ==
  [product_id |-> body.product_id, grade |-> body.grade,
   user_id |-> user_id, is_active |-> TRUE]

(* an update that resets every field the request left out *)
ApplyUpdateResetUnset(row, body) ==
  [row EXCEPT
     !.category_id = IF body.category_id = Unset THEN 1 ELSE body.category_id,
     !.price = IF body.price = Unset THEN 10 ELSE body.price,
     !.stock = IF body.stock = Unset THEN 5 ELSE body.stock]

(* update(ProductModel).values(update_data), update_data = model_dump(exclude_unset) *)
ApplyUpdate(row, body) ==
  [row EXCEPT
     !.category_id = IF body.category_id = Unset THEN @ ELSE body.category_id,
     !.price = IF body.price = Unset THEN @ ELSE body.price,
     !.stock = IF body.stock = Unset THEN @ ELSE body.stock]

(* what a response carries besides its status: the ids of the rows of a    *)
(* list in the order returned, and the total of a page envelope            *)
NoBody == [items |-> <<>>, total |-> 0]

(* the response of the last completed request *)
Respond(op, status, detail) ==
  last' = [op |-> op, status |-> status, detail |-> detail, body |-> NoBody]

(* a 200 response carrying a list *)
RespondList(op, items, total) ==
  last' = [op |-> op, status |-> 200, detail |-> "",
           body |-> [items |-> items, total |-> total]]

----------------------------------------------------------------------------
(* Handlers of app/routers/products.py, run to completion *)

create_product(u, product) ==
  /\ UNCHANGED <<categories, reviews, req>>
  /\ IF ~create_product_dep(u)
     THEN Respond("create_product", 403, "role") /\ UNCHANGED products
     ELSE IF ~SelectActiveCategory(product.category_id)
     THEN Respond("create_product", 400, "Category not found") /\ UNCHANGED products
     ELSE /\ Len(products) < MaxProducts
          /\ products' = Append(products, NewProduct(product, u.id))
          /\ Respond("create_product", 201, "")

get_product(product_id) ==
  /\ UNCHANGED <<categories, products, reviews, req>>
  /\ IF ~SelectActiveProduct(product_id)
     THEN Respond("get_product", 404, "Product not found")
     ELSE IF ~SelectActiveCategory(products[product_id].category_id)
     THEN Respond("get_product", 400, "Category not found")
     ELSE Respond("get_product", 200, "")

update_product(u, product_id, product) ==
  /\ UNCHANGED <<categories, reviews, req>>
  /\ IF ~update_product_dep(u)
     THEN Respond("update_product", 403, "role") /\ UNCHANGED products
     ELSE IF ~SelectActiveProduct(product_id)
     THEN Respond("update_product", 404, "Product not found") /\ UNCHANGED products
     ELSE IF NotOwner(products[product_id], u)
     THEN /\ Respond("update_product", 403, "You can only update your own products")
          /\ UNCHANGED products
     ELSE IF ~SelectActiveCategory(products[product_id].category_id)
     THEN Respond("update_product", 400, "Category not found") /\ UNCHANGED products
     ELSE /\ products' = [products EXCEPT
                            ![product_id] = ApplyUpdate(@, product)]
          /\ Respond("update_product", 200, "")

(* delete_product that deactivates the product's reviews as well *)
delete_product_cascade(u, product_id) ==
  /\ UNCHANGED <<categories, req>>
  /\ IF ~delete_product_dep(u)
     THEN Respond("delete_product", 403, "role") /\ UNCHANGED <<products, reviews>>
     ELSE IF ~SelectActiveProduct(product_id)
     THEN /\ Respond("delete_product", 404, "Product not found")
          /\ UNCHANGED <<products, reviews>>
     ELSE IF NotOwner(products[product_id], u)
     THEN /\ Respond("delete_product", 403, "You can only delete your own products")
          /\ UNCHANGED <<products, reviews>>
     ELSE /\ products' = [products EXCEPT ![product_id].is_active = FALSE]
          /\ reviews' = [i \in 1 .. Len(reviews) |->
                           IF reviews[i].product_id = product_id
                           THEN [reviews[i] EXCEPT !.is_active = FALSE]
                           ELSE reviews[i]]
          /\ Respond("delete_product", 200, "")

delete_product(u, product_id) ==
  /\ UNCHANGED <<categories, reviews, req>>
  /\ IF ~delete_product_dep(u)
     THEN Respond("delete_product", 403, "role") /\ UNCHANGED products
     ELSE IF ~SelectActiveProduct(product_id)
     THEN Respond("delete_product", 404, "Product not found") /\ UNCHANGED products
     ELSE IF NotOwner(products[product_id], u)
     THEN /\ Respond("delete_product", 403, "You can only delete your own products")
          /\ UNCHANGED products
     ELSE /\ products' = [products EXCEPT ![product_id].is_active = FALSE]
          /\ Respond("delete_product", 200, "")

(* soft delete of a category (categories router) *)
delete_category(category_id) ==
  /\ SelectActiveCategory(category_id)
  /\ categories' = [categories EXCEPT ![category_id] = FALSE]
  /\ Respond("delete_category", 200, "")
  /\ UNCHANGED <<products, reviews, req>>

----------------------------------------------------------------------------
(* Handlers of app/routers/reviews.py, run to completion *)

(* create_review with the role test moved behind the product lookup *)
create_review_product_first(u, review) ==
  /\ UNCHANGED <<categories, req>>
  /\ IF ~SelectActiveProduct(review.product_id)
     THEN /\ Respond("create_review", 400, "Product not found")
          /\ UNCHANGED <<products, reviews>>
     ELSE IF ~create_review_dep(u)
     THEN Respond("create_review", 403, "role") /\ UNCHANGED <<products, reviews>>
     ELSE /\ Len(reviews) < MaxReviews
          /\ reviews' = Append(reviews, NewReview(review, u.id))
          /\ products' = update_product_rating(products, reviews', review.product_id)
          /\ Respond("create_review", 201, "")

create_review(u, review) ==
  /\ UNCHANGED <<categories, req>>
  /\ IF ~create_review_dep(u)
     THEN Respond("create_review", 403, "role") /\ UNCHANGED <<products, reviews>>
     ELSE IF ~SelectActiveProduct(review.product_id)
     THEN /\ Respond("create_review", 400, "Product not found")
          /\ UNCHANGED <<products, reviews>>
     ELSE /\ Len(reviews) < MaxReviews
          /\ reviews' = Append(reviews, NewReview(review, u.id))
          /\ products' = update_product_rating(products, reviews', review.product_id)
          /\ Respond("create_review", 201, "")

(* delete_review that removes the row instead of deactivating it *)
delete_review_hard(u, review_id) ==
  /\ UNCHANGED <<categories, req>>
  /\ IF ~delete_review_dep(u)
     THEN Respond("delete_review", 403, "role") /\ UNCHANGED <<products, reviews>>
     ELSE IF ~SelectActiveReview(review_id)
     THEN /\ Respond("delete_review", 404, "Review not found")
          /\ UNCHANGED <<products, reviews>>
     ELSE /\ reviews' = [i \in 1 .. Len(reviews) - 1 |->
                           IF i < review_id THEN reviews[i] ELSE reviews[i + 1]]
          /\ products' = update_product_rating(products, reviews',
                                               reviews[review_id].product_id)
          /\ Respond("delete_review", 200, "")

delete_review(u, review_id) ==
  /\ UNCHANGED <<categories, req>>
  /\ IF ~delete_review_dep(u)
     THEN Respond("delete_review", 403, "role") /\ UNCHANGED <<products, reviews>>
     ELSE IF ~SelectActiveReview(review_id)
     THEN /\ Respond("delete_review", 404, "Review not found")
          /\ UNCHANGED <<products, reviews>>
     ELSE /\ reviews' = [reviews EXCEPT ![review_id].is_active = FALSE]
          /\ products' = update_product_rating(products, reviews',
                                               reviews[review_id].product_id)
          /\ Respond("delete_review", 200, "")

----------------------------------------------------------------------------
(* Specifications with handlers run one at a time *)

(* ---- the read routes ---- *)

(* GET /products: q carries page, page_size and the optional filters *)
get_all_products(q) ==
  /\ UNCHANGED <<categories, products, reviews, req>>
  /\ IF PriceRangeInvalid(q.min_price, q.max_price)
     THEN Respond("get_all_products", 400, "min_price > max_price")
     ELSE LET total == Cardinality(Where(products, q))
              items == OffsetLimit(OrderById(Where(products, q)),
                                   Offset(q.page, q.page_size), q.page_size)
          IN RespondList("get_all_products", items, total)

(* GET /products/category/{category_id} *)
get_products_by_category(category_id) ==
  /\ UNCHANGED <<categories, products, reviews, req>>
  /\ IF ~SelectActiveCategory(category_id)
     THEN Respond("get_products_by_category", 404, "Category not found")
     ELSE \E rows \in AnyOrder(SelectProductsByCategory(products, category_id)) :
            RespondList("get_products_by_category", rows, Len(rows))

(* GET /reviews *)
get_all_reviews ==
  /\ UNCHANGED <<categories, products, reviews, req>>
  /\ \E rows \in AnyOrder(SelectActiveReviews(reviews)) :
       RespondList("get_all_reviews", rows, Len(rows))

(* GET /reviews/{product_id}; comment_date, the sort key, is the same for *)
(* every row created without one, so the rows tie                          *)
get_reviews_by_product(product_id) ==
  /\ UNCHANGED <<categories, products, reviews, req>>
  /\ IF ~SelectActiveProduct(product_id)
     THEN Respond("get_reviews_by_product", 404, "Product not found")
     ELSE \E rows \in AnyOrder(SelectReviewsByProduct(reviews, product_id)) :
            RespondList("get_reviews_by_product", rows, Len(rows))

(* a request slot: where the handler stands and what its session holds *)
Idle ==
  [pc |-> "idle", op |-> "none", uid |-> 0, pid |-> 0, rid |-> 0, grade |-> 0,
   avg |-> None, cached |-> None, wrote |-> FALSE, status |-> 0]

Requests == {"a", "b"}

Init ==
  /\ categories = [c \in CategoryIds |-> TRUE]
  /\ products = <<>>
  /\ reviews = <<>>
  /\ last = [op |-> "none", status |-> 0, detail |-> "", body |-> NoBody]
  /\ req = [r \in Requests |-> Idle]

(* the principals of the review subsystem: one of each role *)
ReviewUsers == { u \in Users : u.id # 2 }

NextCreateProduct == \E u \in ReviewUsers, p \in PlainProducts : create_product(u, p)

NextDeleteProduct == \E u \in ReviewUsers, id \in ProductIds : delete_product(u, id)

NextCreateReview == \E u \in ReviewUsers, r \in ReviewCreate : create_review(u, r)

NextDeleteReview == \E u \in ReviewUsers, id \in ReviewIds : delete_review(u, id)

Next ==
  \/ NextCreateProduct
  \/ NextDeleteProduct
  \/ NextCreateReview
  \/ NextDeleteReview

Spec == Init /\ [][Next]_vars

(* the principals of the product subsystem: two sellers and a non-seller *)
CatalogUsers == { u \in Users : u.id # 4 }

CatCreateProduct == \E u \in CatalogUsers, p \in ProductCreate : create_product(u, p)

(* PUT bodies of the product subsystem: category_id set or not, the rest unset *)
CatalogUpdates == { b \in ProductUpdate : b.price = Unset /\ b.stock = Unset }

CatUpdateProduct ==
  \E u \in CatalogUsers, id \in ProductIds, p \in CatalogUpdates : update_product(u, id, p)

CatDeleteProduct == \E u \in CatalogUsers, id \in ProductIds : delete_product(u, id)

CatGetProduct == \E id \in ProductIds : get_product(id)

CatDeleteCategory == \E c \in CategoryIds : delete_category(c)

NextCatalog ==
  \/ CatCreateProduct
  \/ CatUpdateProduct
  \/ CatDeleteProduct
  \/ CatGetProduct
  \/ CatDeleteCategory

SpecCatalog == Init /\ [][NextCatalog]_vars

(* ---- update_product over rows and bodies whose fields vary ---- *)

UpdatePrices == {10, 20}

UpdateStocks == {0, 5}

(* PUT bodies: each field supplied with a value or left unset *)
WideUpdates ==
  [category_id : CategoryIds \cup {Unset},
   price : UpdatePrices \cup {Unset},
   stock : UpdateStocks \cup {Unset}]

(* two products of two sellers, the first reviewed once with grade 2 *)
InitUpdate ==
  /\ categories = [c \in CategoryIds |-> TRUE]
  /\ products = <<[NewProduct([category_id |-> 1, price |-> 10, stock |-> 5], 1)
                     EXCEPT !.rating = Frac(2, 1)],
                  NewProduct([category_id |-> 2, price |-> 20, stock |-> 0], 2)>>
  /\ reviews = <<NewReview([product_id |-> 1, grade |-> 2], 3)>>
  /\ last = [op |-> "create_review", status |-> 201, detail |-> "", body |-> NoBody]
  /\ req = [r \in Requests |-> Idle]

UpdUpdateProduct ==
  \E u \in CatalogUsers, id \in ProductIds, p \in WideUpdates : update_product(u, id, p)

UpdDeleteProduct == \E u \in CatalogUsers, id \in ProductIds : delete_product(u, id)

NextUpdate ==
  \/ UpdUpdateProduct
  \/ UpdDeleteProduct

SpecUpdate == InitUpdate /\ [][NextUpdate]_vars

(* ---- get_all_products applied to a request over a table of products ---- *)

(* the rows of a listed table: an active product, an inactive one, and an *)
(* active one that differs in every column a filter reads                  *)
ListRows ==
  { NewProduct([category_id |-> 1, price |-> 10, stock |-> 5], 1),
    [NewProduct([category_id |-> 1, price |-> 10, stock |-> 5], 1)
       EXCEPT !.is_active = FALSE],
    NewProduct([category_id |-> 2, price |-> 20, stock |-> 0], 2) }

ListTables == UNION { [1 .. n -> ListRows] : n \in 0 .. MaxListed }

Pages == {1, 2, 3}

PageSizes == {1, 2, 100}

(* min_price and max_price of a request *)
PriceRanges ==
  { <<Unset, Unset>>, <<10, Unset>>, <<Unset, 10>>,
    <<10, 20>>, <<10, 10>>, <<20, 10>> }

(* the other filters of a request: none, or one of them *)
OtherFilters ==
  { [category_id |-> Unset, in_stock |-> NoFlag, seller_id |-> Unset],
    [category_id |-> 1, in_stock |-> NoFlag, seller_id |-> Unset],
    [category_id |-> Unset, in_stock |-> <<TRUE>>, seller_id |-> Unset],
    [category_id |-> Unset, in_stock |-> <<FALSE>>, seller_id |-> Unset],
    [category_id |-> Unset, in_stock |-> NoFlag, seller_id |-> 2] }

ListQueries ==
  { [page |-> p, page_size |-> s, category_id |-> f.category_id,
     min_price |-> r[1], max_price |-> r[2],
     in_stock |-> f.in_stock, seller_id |-> f.seller_id] :
      p \in Pages, s \in PageSizes, r \in PriceRanges, f \in OtherFilters }

(* a table of products and a GET /products request waiting to be served *)
InitList ==
  /\ categories = [c \in CategoryIds |-> TRUE]
  /\ products \in ListTables
  /\ reviews = <<>>
  /\ last = [op |-> "none", status |-> 0, detail |-> "", body |-> NoBody]
  /\ req \in { [r \in Requests |-> [pc |-> "idle", query |-> q]] : q \in ListQueries }

(* the request being served *)
Query == req["a"].query

ListGetAllProducts == get_all_products(Query)

NextList == ListGetAllProducts

SpecList == InitList /\ [][NextList]_vars

(* ---- every route of both routers, each called by a principal that its ---- *)
(* ---- role dependency admits                                            ---- *)

Sellers == { u \in Users : u.id = 1 }

Buyers == { u \in Users : get_current_buyer(u) }

Admins == { u \in Users : get_current_admin(u) }

(* GET /products with every Query parameter at its default *)
DefaultQuery ==
  [page |-> 1, page_size |-> 20, category_id |-> Unset, min_price |-> Unset,
   max_price |-> Unset, in_stock |-> NoFlag, seller_id |-> Unset]

AllCreateProduct == \E u \in Sellers, p \in PlainProducts : create_product(u, p)

AllUpdateProduct ==
  \E u \in Sellers, id \in ProductIds, p \in PlainProducts : update_product(u, id, p)

AllDeleteProduct == \E u \in Sellers, id \in ProductIds : delete_product(u, id)

AllDeleteCategory == \E c \in CategoryIds : delete_category(c)

(* the review bodies used where the grade does not matter *)
PlainReviews == { r \in ReviewCreate : r.grade = 1 }

AllCreateReview == \E u \in Buyers, r \in PlainReviews : create_review(u, r)

AllDeleteReview == \E u \in Admins, id \in ReviewIds : delete_review(u, id)

AllGetAllProducts == get_all_products(DefaultQuery)

AllGetProductsByCategory == \E c \in CategoryIds : get_products_by_category(c)

AllGetProduct == \E id \in ProductIds : get_product(id)

AllGetAllReviews == get_all_reviews

AllGetReviewsByProduct == \E id \in ProductIds : get_reviews_by_product(id)

NextAll ==
  \/ AllCreateProduct
  \/ AllUpdateProduct
  \/ AllDeleteProduct
  \/ AllDeleteCategory
  \/ AllCreateReview
  \/ AllDeleteReview
  \/ AllGetAllProducts
  \/ AllGetProductsByCategory
  \/ AllGetProduct
  \/ AllGetAllReviews
  \/ AllGetReviewsByProduct

SpecAll == Init /\ [][NextAll]_vars

----------------------------------------------------------------------------
(* Requests in flight.  Each request runs on its own task with its own      *)
(* session; a step is one awaited store call, and a commit makes the        *)
(* session's pending write durable at once.  Statements read the committed  *)
(* store.                                                                   *)

Free(r) == req[r].pc \in {"idle", "done"}

(* the handler returns or raises: the slot keeps the response *)
Finish(r, status, detail) ==
  /\ req' = [req EXCEPT ![r] = [Idle EXCEPT !.pc = "done", !.op = req[r].op,
                                            !.wrote = req[r].wrote,
                                            !.status = status]]
  /\ Respond(req[r].op, status, detail)

(* POST /reviews arrives; the role dependency runs before the handler body *)
begin_create_review(r, u, review) ==
  /\ Free(r)
  /\ UNCHANGED store
  /\ IF ~create_review_dep(u)
     THEN /\ req' = [req EXCEPT ![r] = [Idle EXCEPT !.pc = "done",
                                        !.op = "create_review", !.status = 403]]
          /\ Respond("create_review", 403, "role")
     ELSE /\ req' = [req EXCEPT ![r] = [Idle EXCEPT !.pc = "cr_select",
                                        !.op = "create_review", !.uid = u.id,
                                        !.pid = review.product_id,
                                        !.grade = review.grade]]
          /\ UNCHANGED last

(* product = select(ProductModel).where(id, is_active).first(); 400 if None *)
cr_select(r) ==
  /\ req[r].pc = "cr_select"
  /\ UNCHANGED store
  /\ IF ~SelectActiveProduct(req[r].pid)
     THEN Finish(r, 400, "Product not found")
     ELSE /\ req' = [req EXCEPT ![r].pc = "cr_commit",
                                ![r].cached = products[req[r].pid].rating]
          /\ UNCHANGED last

(* db.add(db_review); await db.commit() *)
cr_commit(r) ==
  /\ req[r].pc = "cr_commit"
  /\ Len(reviews) < MaxReviews
  /\ reviews' = Append(reviews,
                       NewReview([product_id |-> req[r].pid, grade |-> req[r].grade],
                                 req[r].uid))
  /\ req' = [req EXCEPT ![r].pc = "upr_avg", ![r].rid = Len(reviews) + 1,
                        ![r].wrote = TRUE]
  /\ UNCHANGED <<categories, products, last>>

(* DELETE /reviews/{id} arrives *)
begin_delete_review(r, u, review_id) ==
  /\ Free(r)
  /\ UNCHANGED store
  /\ IF ~delete_review_dep(u)
     THEN /\ req' = [req EXCEPT ![r] = [Idle EXCEPT !.pc = "done",
                                        !.op = "delete_review", !.status = 403]]
          /\ Respond("delete_review", 403, "role")
     ELSE /\ req' = [req EXCEPT ![r] = [Idle EXCEPT !.pc = "dr_select",
                                        !.op = "delete_review", !.uid = u.id,
                                        !.rid = review_id]]
          /\ UNCHANGED last

(* review = select(ReviewModel).where(id, is_active).first(); 404 if None *)
dr_select(r) ==
  /\ req[r].pc = "dr_select"
  /\ UNCHANGED store
  /\ IF ~SelectActiveReview(req[r].rid)
     THEN Finish(r, 404, "Review not found")
     ELSE /\ req' = [req EXCEPT ![r].pc = "dr_commit",
                                ![r].pid = reviews[req[r].rid].product_id]
          /\ UNCHANGED last

(* update(ReviewModel).where(id).values(is_active=False); await db.commit() *)
dr_commit(r) ==
  /\ req[r].pc = "dr_commit"
  /\ reviews' = [reviews EXCEPT ![req[r].rid].is_active = FALSE]
  /\ req' = [req EXCEPT ![r].pc = "upr_avg", ![r].wrote = TRUE]
  /\ UNCHANGED <<categories, products, last>>

(* update_product_rating: the select of func.avg, and "or 0.0".  In         *)
(* create_review the product is already in the session, so db.get issues no *)
(* statement.                                                               *)
upr_avg(r) ==
  /\ req[r].pc = "upr_avg"
  /\ req' = [req EXCEPT ![r].avg = avg_rating(reviews, req[r].pid),
                        ![r].pc = IF req[r].op = "create_review"
                                  THEN "upr_commit" ELSE "upr_get"]
  /\ UNCHANGED <<store, last>>

(* update_product_rating: product = await db.get(ProductModel, product_id), *)
(* a select when the session has not loaded the product                     *)
upr_get(r) ==
  /\ req[r].pc = "upr_get"
  /\ req' = [req EXCEPT ![r].cached = products[req[r].pid].rating,
                        ![r].pc = "upr_commit"]
  /\ UNCHANGED <<store, last>>

(* update_product_rating: product.rating = avg_rating; await db.commit().   *)
(* The flush writes the column when the value differs from the one the      *)
(* session loaded; when the two are equal the unit of work may issue no     *)
(* UPDATE at all.  The handler then returns.                                *)
upr_commit(r) ==
  /\ req[r].pc = "upr_commit"
  /\ \E flush \in (IF req[r].avg = req[r].cached THEN {TRUE, FALSE} ELSE {TRUE}) :
       products' = IF flush
                   THEN [products EXCEPT ![req[r].pid].rating = req[r].avg]
                   ELSE products
  /\ Finish(r, IF req[r].op = "create_review" THEN 201 ELSE 200, "")
  /\ UNCHANGED <<categories, reviews>>

(* DELETE /products/{id} arrives *)
begin_delete_product(r, u, product_id) ==
  /\ Free(r)
  /\ UNCHANGED store
  /\ IF ~delete_product_dep(u)
     THEN /\ req' = [req EXCEPT ![r] = [Idle EXCEPT !.pc = "done",
                                        !.op = "delete_product", !.status = 403]]
          /\ Respond("delete_product", 403, "role")
     ELSE /\ req' = [req EXCEPT ![r] = [Idle EXCEPT !.pc = "dp_select",
                                        !.op = "delete_product", !.uid = u.id,
                                        !.pid = product_id]]
          /\ UNCHANGED last

(* product = select(ProductModel).where(id, is_active).first(); 404, 403 *)
dp_select(r) ==
  /\ req[r].pc = "dp_select"
  /\ UNCHANGED store
  /\ IF ~SelectActiveProduct(req[r].pid)
     THEN Finish(r, 404, "Product not found")
     ELSE IF NotOwner(products[req[r].pid], [id |-> req[r].uid])
     THEN Finish(r, 403, "You can only delete your own products")
     ELSE /\ req' = [req EXCEPT ![r].pc = "dp_commit"]
          /\ UNCHANGED last

(* update(ProductModel).where(id).values(is_active=False); await db.commit() *)
dp_commit(r) ==
  /\ req[r].pc = "dp_commit"
  /\ products' = [products EXCEPT ![req[r].pid].is_active = FALSE]
  /\ Finish(r, 200, "")
  /\ UNCHANGED <<categories, reviews>>

(* an awaited store call raises: the session's pending work is rolled back, *)
(* what was committed stays, the caller gets 500                            *)
StoreError(r) ==
  /\ req[r].pc \notin {"idle", "done"}
  /\ Finish(r, 500, "store error")
  /\ UNCHANGED store

(* one product, created by seller 1 in category 1, no reviews yet *)
InitConc ==
  /\ categories = [c \in CategoryIds |-> TRUE]
  /\ products = <<NewProduct([category_id |-> 1, price |-> 10, stock |-> 5], 1)>>
  /\ reviews = <<>>
  /\ last = [op |-> "create_product", status |-> 201, detail |-> "", body |-> NoBody]
  /\ req = [r \in Requests |-> Idle]

ConcUsers == { u \in Users : u.id # 2 }

ConcReviews == { b \in ReviewCreate : b.product_id = 1 }

ConcBeginCreateReview ==
  \E r \in Requests, u \in ConcUsers, b \in ConcReviews : begin_create_review(r, u, b)

ConcBeginDeleteReview ==
  \E r \in Requests, u \in ConcUsers, id \in 1 .. MaxReviews :
    begin_delete_review(r, u, id)

ConcBeginDeleteProduct ==
  \E r \in Requests, u \in ConcUsers : begin_delete_product(r, u, 1)

ConcCrSelect == \E r \in Requests : cr_select(r)

ConcCrCommit == \E r \in Requests : cr_commit(r)

ConcDrSelect == \E r \in Requests : dr_select(r)

ConcDrCommit == \E r \in Requests : dr_commit(r)

ConcUprAvg == \E r \in Requests : upr_avg(r)

ConcUprGet == \E r \in Requests : upr_get(r)

ConcUprCommit == \E r \in Requests : upr_commit(r)

ConcDpSelect == \E r \in Requests : dp_select(r)

ConcDpCommit == \E r \in Requests : dp_commit(r)

ConcStoreError == \E r \in Requests : StoreError(r)

NextConc ==
  \/ ConcBeginCreateReview
  \/ ConcBeginDeleteReview
  \/ ConcBeginDeleteProduct
  \/ ConcCrSelect
  \/ ConcCrCommit
  \/ ConcDrSelect
  \/ ConcDrCommit
  \/ ConcUprAvg
  \/ ConcUprGet
  \/ ConcUprCommit
  \/ ConcDpSelect
  \/ ConcDpCommit

(* requests interleave, no store call fails *)
SpecConc == InitConc /\ [][NextConc]_vars

(* requests interleave and store calls may fail *)
SpecFail == InitConc /\ [][NextConc \/ ConcStoreError]_vars

----------------------------------------------------------------------------
(* What the claims speak of, computed apart from the model's own queries *)

RECURSIVE GradeTotal(_, _, _)
GradeTotal(revs, pid, n) ==
  IF n = 0 THEN 0
  ELSE GradeTotal(revs, pid, n - 1)
       + (IF revs[n].product_id = pid /\ revs[n].is_active THEN revs[n].grade ELSE 0)

RECURSIVE GradeCount(_, _, _)
GradeCount(revs, pid, n) ==
  IF n = 0 THEN 0
  ELSE GradeCount(revs, pid, n - 1)
       + (IF revs[n].product_id = pid /\ revs[n].is_active THEN 1 ELSE 0)

(* rating r is the arithmetic mean of the active grades of pid, 0.0 over none *)
IsMeanOfActive(r, revs, pid) ==
  LET c == GradeCount(revs, pid, Len(revs))
      t == GradeTotal(revs, pid, Len(revs))
  IN IF c = 0 THEN r = <<0, 1>>
     ELSE r[2] > 0 /\ r[1] * c = t * r[2]

CategoryIsActive(cid) == cid \in CategoryIds /\ categories[cid]

ProductIsActive(pid) == pid \in 1 .. Len(products) /\ products[pid].is_active

(* the seller-visible columns of a product row *)
SellerColumns(row) ==
  <<row.category_id, row.price, row.stock, row.seller_id, row.is_active>>

----------------------------------------------------------------------------
(* C1: with create_review and delete_review run one at a time, each to      *)
(* completion, every product's rating is the arithmetic mean of grade over  *)
(* its active reviews, and 0.0 when it has no active review.                *)
C1_RatingIsMean ==
  \A p \in 1 .. Len(products) : IsMeanOfActive(products[p].rating, reviews, p)

(* a review of grade 2 was soft-deleted, the remaining grade 1 is the rating *)
C1_Witness ==
  /\ last.op = "delete_review" /\ last.status = 200
  /\ \E p \in 1 .. Len(products), i, j \in 1 .. Len(reviews) :
       /\ reviews[i].product_id = p /\ reviews[i].is_active /\ reviews[i].grade = 1
       /\ reviews[j].product_id = p /\ ~reviews[j].is_active /\ reviews[j].grade = 2
       /\ products[p].rating = <<1, 1>>

(* C5: create_product changes the store only for a seller, create_review    *)
(* only for a buyer, delete_review only for an admin; a call by any other   *)
(* role ends with 403 and leaves products, reviews and ratings unchanged.   *)
C5_RoleGating ==
  [][/\ (last'.op = "create_product" /\ ~(last'.status = 403 /\ UNCHANGED store)) =>
          \A u \in ReviewUsers, p \in PlainProducts :
            u.role # "seller" => ~create_product(u, p)
     /\ (last'.op = "create_review" /\ ~(last'.status = 403 /\ UNCHANGED store)) =>
          \A u \in ReviewUsers, r \in ReviewCreate :
            u.role # "buyer" => ~create_review(u, r)
     /\ (last'.op = "delete_review" /\ ~(last'.status = 403 /\ UNCHANGED store)) =>
          \A u \in ReviewUsers, id \in ReviewIds :
            u.role # "admin" => ~delete_review(u, id)]_vars

(* a non-buyer was refused a review of a product that is there and active *)
C5_Witness ==
  /\ last.op = "create_review" /\ last.status = 403 /\ last.detail = "role"
  /\ ProductIsActive(1)

C9_CreateProduct ==
  [][last'.op = "create_product" =>
       \A u \in CatalogUsers, p \in ProductCreate :
         create_product(u, p) =>
         /\ (u.role = "seller" /\ ~CategoryIsActive(p.category_id)) =>
              (last'.status = 400 /\ products' = products)
         /\ last'.status = 201 =>
              /\ Len(products') = Len(products) + 1
              /\ SubSeq(products', 1, Len(products)) = products
              /\ products'[Len(products')].seller_id = u.id
              /\ products'[Len(products')].is_active
              /\ products'[Len(products')].rating = <<0, 1>>
              /\ CategoryIsActive(p.category_id)]_vars

(* a seller was refused a product in a category that had been deactivated *)
C9_Witness ==
  /\ last.op = "create_product" /\ last.status = 400
  /\ last.detail = "Category not found"
  /\ \E c \in CategoryIds : ~categories[c]

(* C6: every successful update_product leaves the product in a category     *)
(* that is active at the time of the write; a supplied category_id must     *)
(* name an active category, else 400 and the product is unchanged.          *)
C6_UpdateKeepsActiveCategory ==
  [][last'.op = "update_product" =>
       \A u \in CatalogUsers, id \in ProductIds, p \in CatalogUpdates :
         update_product(u, id, p) =>
         /\ last'.status = 200 => CategoryIsActive(products'[id].category_id)
         /\ (last'.status \notin {403, 404} /\ p.category_id # Unset
               /\ ~CategoryIsActive(p.category_id)) =>
              (last'.status = 400 /\ products' = products)]_vars

(* C10: get_product answers 200 for every product that exists and is        *)
(* active, and 404 exactly when it is missing or inactive, whatever the     *)
(* state of its category.                                                   *)
C10_GetProduct ==
  [][last'.op = "get_product" =>
       \A id \in ProductIds :
         get_product(id) =>
         /\ ProductIsActive(id) => last'.status = 200
         /\ ~ProductIsActive(id) <=> last'.status = 404]_vars
(* C2: the review write and the rating write become durable in one commit:  *)
(* in no committed store state is a request's review insert or is_active    *)
(* flip persisted while the product's rating still reflects the previous    *)
(* active review set.                                                       *)
C2_OneAtomicCommit ==
  \A r \in Requests :
    (req[r].wrote /\ req[r].pc \in {"upr_avg", "upr_get", "upr_commit"}) =>
      IsMeanOfActive(products[req[r].pid].rating, reviews, req[r].pid)

(* C3: a create_review or delete_review that fails after its authorization  *)
(* check leaves the durable store as it was before the request: a request   *)
(* answered with 500 has committed no review insert and no is_active flip.  *)
C3_FailureAbortsMutation ==
  \A r \in Requests :
    (req[r].pc = "done" /\ req[r].status = 500
       /\ req[r].op \in {"create_review", "delete_review"}) => ~req[r].wrote

(* C7: under any interleaving of create_review(p) with delete_product(p),   *)
(* no review is committed for p at a moment when p is already committed as  *)
(* is_active = false.                                                       *)
C7_NoReviewOnInactiveProduct ==
  [][Len(reviews') > Len(reviews) =>
       products[reviews'[Len(reviews')].product_id].is_active]_vars

(* C8: once two concurrent review mutations of a product have both          *)
(* finished, the rating left on the product is the mean of grade over the   *)
(* reviews that are durable and active then.                                *)
C8_LastRecomputeIsCurrent ==
  (\A r \in Requests : req[r].pc \in {"idle", "done"}) =>
    \A p \in 1 .. Len(products) : IsMeanOfActive(products[p].rating, reviews, p)
(* C11: deleting is not repeatable: delete_product on a product that is    *)
(* already inactive, and delete_review on a review that is already          *)
(* inactive, answer 404 and leave the store, ratings included, unchanged.   *)
C11_DeleteNotRepeatable ==
  [][/\ (last'.op = "delete_product"
           /\ ~(last'.status = 404 /\ UNCHANGED store)) =>
          \A u \in ReviewUsers, id \in 1 .. Len(products) :
            (u.role = "seller" /\ ~products[id].is_active) => ~delete_product(u, id)
     /\ (last'.op = "delete_review"
           /\ ~(last'.status = 404 /\ UNCHANGED store)) =>
          \A u \in ReviewUsers, id \in 1 .. Len(reviews) :
            (u.role = "admin" /\ ~reviews[id].is_active) => ~delete_review(u, id)]_vars

(* a delete was answered 404 while every product there is already inactive *)
C11_Witness ==
  /\ last.op = "delete_product" /\ last.status = 404
  /\ Len(products) = MaxProducts
  /\ \A id \in 1 .. Len(products) : ~products[id].is_active

(* C16 as claimed: in create_review the referential precondition is         *)
(* evaluated before the access policy, so a non-buyer asking for a missing  *)
(* or inactive product gets 400, not 403.                                   *)
C16_ReferentialBeforePolicy ==
  [][last'.op = "create_review" =>
       \A u \in ReviewUsers, r \in ReviewCreate :
         (u.role # "buyer" /\ ~ProductIsActive(r.product_id)
            /\ create_review(u, r)) => last'.status = 400]_vars

(* C16 amended: the access policy is evaluated before the referential       *)
(* precondition: a non-buyer asking for a missing or inactive product gets  *)
(* 403 and nothing changes; a buyer asking for it gets 400.                 *)
C16_PolicyBeforeReferential ==
  [][last'.op = "create_review" =>
       \A u \in ReviewUsers, r \in ReviewCreate :
         (~ProductIsActive(r.product_id) /\ create_review(u, r)) =>
           /\ UNCHANGED store
           /\ last'.status = IF u.role = "buyer" THEN 400 ELSE 403]_vars

(* a non-buyer was refused with 403 while no active product exists at all *)
C16_Witness ==
  /\ last.op = "create_review" /\ last.status = 403
  /\ \A id \in ProductIds : ~ProductIsActive(id)
(* the ids of the rows a response lists *)
Listed(r) == { r.body.items[k] : k \in 1 .. Len(r.body.items) }

C17_SoftDeleteIsOneWay ==
  [][/\ Len(products') >= Len(products)
     /\ Len(reviews') >= Len(reviews)
     /\ \A id \in 1 .. Len(products) :
          id \in 1 .. Len(products')
            => (~products[id].is_active => ~products'[id].is_active)
     /\ \A id \in 1 .. Len(reviews) :
          id \in 1 .. Len(reviews')
            => (~reviews[id].is_active => ~reviews'[id].is_active)]_vars

(* a review was accepted while an inactive product and an inactive review *)
(* are in the store                                                        *)
C17_Witness ==
  /\ last.op = "create_review" /\ last.status = 201
  /\ \E id \in 1 .. Len(products) : ~products[id].is_active
  /\ \E id \in 1 .. Len(reviews) : ~reviews[id].is_active

(* C18: delete_product does not cascade: a successful call changes only the *)
(* is_active of its product, leaving its rating and every review as they    *)
(* were; the active reviews of an inactive product are still listed by      *)
(* get_all_reviews, while get_reviews_by_product for it answers 404.        *)
C18_NoCascade ==
  [][/\ (last'.op = "delete_product" /\ last'.status = 200) =>
          /\ reviews' = reviews
          /\ categories' = categories
          /\ \E id \in 1 .. Len(products) :
               /\ products[id].is_active
               /\ products' = [products EXCEPT ![id].is_active = FALSE]
     /\ last'.op = "get_all_reviews" =>
          \A id \in 1 .. Len(reviews) :
            (reviews[id].is_active /\ ~ProductIsActive(reviews[id].product_id))
              => id \in Listed(last')
     /\ last'.op = "get_reviews_by_product" =>
          \A id \in 1 .. Len(products) :
            (~products[id].is_active /\ get_reviews_by_product(id))
              => last'.status = 404]_vars

(* the review listing returned an active review of an inactive product *)
C18_Witness ==
  /\ last.op = "get_all_reviews" /\ last.status = 200
  /\ \E id \in Listed(last) :
       reviews[id].is_active /\ ~ProductIsActive(reviews[id].product_id)
(* the columns a PUT body can carry *)
BodyColumns == {"category_id", "price", "stock"}

(* C13: update_product is a partial update: exactly the supplied fields    *)
(* take the supplied values and the others keep theirs; seller_id, rating  *)
(* and is_active of the product (and its id, its place in the table) never *)
(* change; no other product, no review and no category is modified.        *)
C13_PartialUpdate ==
  [][last'.op = "update_product" =>
       /\ reviews' = reviews
       /\ categories' = categories
       /\ Len(products') = Len(products)
       /\ \A id \in 1 .. Len(products) :
            /\ products'[id].seller_id = products[id].seller_id
            /\ products'[id].rating = products[id].rating
            /\ products'[id].is_active = products[id].is_active
       /\ last'.status # 200 => products' = products
       /\ last'.status = 200 =>
            \A id \in 1 .. Len(products), u \in CatalogUsers, b \in WideUpdates :
              (products[id].seller_id = u.id /\ update_product(u, id, b)) =>
                /\ \A other \in 1 .. Len(products) :
                     other # id => products'[other] = products[other]
                /\ \A f \in BodyColumns :
                     products'[id][f] = IF b[f] = Unset THEN products[id][f] ELSE b[f]]_vars

(* an update went through and left the first product with a field it was *)
(* not created with next to one it was created with                       *)
C13_Witness ==
  /\ last.op = "update_product" /\ last.status = 200
  /\ products[1].price = 20 /\ products[1].stock = 5
  /\ products[1].rating = Frac(2, 1)
(* the products that a request's filters select, by id *)
Matching == Where(products, Query)

(* C14: for page >= 1 and page_size in 1..100, get_all_products over N      *)
(* matching active products returns total = N and the items at positions    *)
(* (page-1)*page_size+1 .. min(page*page_size, N) of the matching products  *)
(* in ascending id order, none when the page lies past N.                   *)
C14_Pagination ==
  (last.op = "get_all_products" /\ last.status = 200) =>
    LET N == Cardinality(Matching)
        first == (Query.page - 1) * Query.page_size + 1
        lastPos == IF Query.page * Query.page_size < N
                   THEN Query.page * Query.page_size ELSE N
        items == last.body.items
    IN /\ last.body.total = N
       /\ Len(items) = IF lastPos >= first THEN lastPos - first + 1 ELSE 0
       /\ \A k \in 1 .. Len(items) :
            /\ items[k] \in Matching
            /\ Cardinality({ id \in Matching : id < items[k] }) = first + k - 2

(* page 2 of size 2 over five matching products is items 3 and 4 of 5 *)
C14_Witness ==
  /\ last.op = "get_all_products" /\ last.status = 200
  /\ Query.page = 2 /\ Query.page_size = 2
  /\ last.body = [items |-> <<3, 4>>, total |-> 5]

(* C15: get_all_products answers 400, with nothing read from the store,    *)
(* exactly when min_price and max_price are both given and min_price >     *)
(* max_price; with one bound only, or min_price <= max_price, it does not. *)
C15_PriceRangeCheck ==
  last.op = "get_all_products" =>
    /\ last.status = 400 <=>
         (/\ Query.min_price # Unset
          /\ Query.max_price # Unset
          /\ Query.min_price > Query.max_price)
    /\ last.status = 400 => last.body = NoBody
    /\ last.status \in {200, 400}

(* a request with min_price above max_price was refused over a table that *)
(* holds a product                                                        *)
C15_Witness ==
  /\ last.op = "get_all_products" /\ last.status = 400
  /\ Query.min_price = 20 /\ Query.max_price = 10
  /\ Len(products) > 0


====
